---- MODULE Spec2Model ----
(***************************************************************************)
(* Smart Glasses Demand Prediction API (src/API/prediction.py).            *)
(*                                                                         *)
(* The process-wide state is the three module globals model, scaler and    *)
(* actual_feature_names, written by the lifespan start-up hook.  Every     *)
(* endpoint handler is an `async def` without an await, so a handler runs  *)
(* to completion on the event loop: one action per handler.  A request is  *)
(* received (req), handled by the handler of its route (resp, calls) and   *)
(* its response sent.                                                      *)
(*                                                                         *)
(* Numbers: the raw model output and the confidence are fixed-point        *)
(* numbers with Digits+1 decimals (Unit stands for 1.0); the confidence    *)
(* placed in a response is round(confidence, 3), a number of thousandths.  *)
(***************************************************************************)
EXTENDS Integers, Sequences, FiniteSets

VARIABLES
    pc,                     \* "import" | "serving" | "shutdown"
    model,                  \* global model  (None or the loaded artifact)
    scaler,                 \* global scaler (None or the loaded artifact)
    actual_feature_names,   \* global list of expected column names
    req,                    \* the request being handled
    resp,                   \* the response its handler produced
    calls                   \* predict_smart_glasses_demand's invocations for req

vars == <<pc, model, scaler, actual_feature_names, req, resp, calls>>

globals == <<model, scaler, actual_feature_names>>

\* -------------------------------------------------------------- bounds
\* raw model outputs lie in [2 - RawReach, 2 + RawReach], RawStep/Unit apart
RawReach == 3
RawStep == 625
\* the batches a client sends hold up to SmallBatch items, or a number of items
\* from one below the limit of predict_batch up to MaxBatchLen
SmallBatch == 3
MaxBatchLen == 52

\* ------------------------------------------------------------ numbers
Digits == 3
Unit == 10 ^ (Digits + 1)
Milli == 10 ^ Digits

Hundredths(p) == (p * Unit) \div 100

Min(a, b) == IF a < b THEN a ELSE b
Max(a, b) == IF a > b THEN a ELSE b
Abs(a) == IF a < 0 THEN -a ELSE a

\* Python's round(): num/den to the nearest integer, a tie to the even one
round(num, den) ==
    LET fl == num \div den
        rem == num % den
    IN  IF 2 * rem < den THEN fl
        ELSE IF 2 * rem > den THEN fl + 1
        ELSE IF fl % 2 = 0 THEN fl ELSE fl + 1

\* round(confidence, 3): fixed-point confidence to thousandths
round3(confidence) == round(confidence * Milli, Unit)

\* ------------------------------------------------------------ globals
None == [type |-> "NoneType"]
NoNames == <<>>     \* actual_feature_names = None (falsy, like the empty list)

HardcodedNames ==
    << "Training related to Cognition",
       "Training related to Communication",
       "Training related to Hearing",
       "Training related to Mobility",
       "Training related to Self-care",
       "Training related to Vision",
       "total_training_score",
       "vision_mobility_score",
       "assistive_tech_readiness" >>

\* the column order an artifact fitted on a differently ordered frame carries
TrainedNames ==
    << "total_training_score",
       "vision_mobility_score",
       "assistive_tech_readiness",
       "Training related to Cognition",
       "Training related to Communication",
       "Training related to Hearing",
       "Training related to Mobility",
       "Training related to Self-care",
       "Training related to Vision" >>

\* what joblib.load can return for models/best_smart_glasses_model.pkl
ModelArtifacts ==
    { [type |-> "RandomForestRegressor", has_names |-> TRUE,
       feature_names_in_ |-> TrainedNames],
      [type |-> "LinearRegression", has_names |-> FALSE,
       feature_names_in_ |-> NoNames] }

\* what joblib.load can return for models/feature_scaler.pkl
ScalerArtifacts ==
    { [type |-> "StandardScaler", has_names |-> TRUE,
       feature_names_in_ |-> HardcodedNames],
      [type |-> "MinMaxScaler", has_names |-> FALSE,
       feature_names_in_ |-> NoNames] }

\* joblib.load either returns the artifact or raises
LoadResults(artifacts) ==
    { [ok |-> TRUE, value |-> a] : a \in artifacts }
        \cup { [ok |-> FALSE, value |-> None] }

\* ----------------------------------------------------------- requests
Fields ==
    {"cognition", "communication", "hearing", "mobility", "self_care", "vision"}

FieldOrder ==
    <<"cognition", "communication", "hearing", "mobility", "self_care", "vision">>

\* the 64 valid questionnaires
Profiles == [Fields -> {0, 1}]

\* values a client may send for a field that Field(ge=0, le=1) refuses
BadValues == {-1, 2}

\* a JSON object: a map from the keys it holds to integers
Without(body, f) == [g \in (DOMAIN body) \ {f} |-> body[g]]

PredictBodies ==
    Profiles
        \cup { Without(p, f) : p \in Profiles, f \in Fields }
        \cup { [p EXCEPT ![f] = v] : p \in Profiles, f \in Fields, v \in BadValues }

\* variant: no upper bound le=1 and no validate_binary_values
FieldAccepted_unbounded(v) == v >= 0

\* PredictionRequest: every field required, ge=0, le=1, then validate_binary_values
FieldAccepted(v) == v >= 0 /\ v <= 1 /\ v \in {0, 1}

PredictionRequest(body) ==
    /\ Fields \subseteq DOMAIN body
    /\ \A f \in Fields : FieldAccepted(body[f])

ListOfPredictionRequest(items) ==
    \A i \in 1..Len(items) : PredictionRequest(items[i])

RECURSIVE SumOver(_, _)
SumOver(d, S) ==
    IF S = {} THEN 0
    ELSE LET k == CHOOSE k \in S : TRUE IN d[k] + SumOver(d, S \ {k})

\* sum(features.values())
sum_values(d) == SumOver(d, DOMAIN d)

\* questionnaire number k (bit j of k is the j-th field)
ProfileNo(k) ==
    [f \in Fields |->
        LET j == CHOOSE j \in 1..Len(FieldOrder) : FieldOrder[j] = f
        IN  (k \div (2 ^ (j - 1))) % 2]

\* the size predict_batch refuses to exceed
BatchLimit == 50

BatchLens == (0..SmallBatch) \cup ((BatchLimit - 1)..MaxBatchLen)

BatchStarts == {21, 63}
BatchStrides == {0, 11}

\* a batch of n questionnaires: number a, a + d, a + 2d, ...
BatchItems(n, a, d) ==
    [i \in 1..n |-> ProfileNo((a + (i - 1) * d) % Cardinality(Profiles))]

\* the same batch with its item at position p refused by the validation
SpoiltBatches(items) ==
    IF Len(items) = 0 THEN {}
    ELSE { [items EXCEPT ![p] = bad] :
             p \in {1, Len(items)},
             bad \in { Without(items[1], "vision"),
                       [items[1] EXCEPT !["cognition"] = 2] } }

BatchBodies ==
    LET sound == { BatchItems(n, a, d) :
                     n \in BatchLens, a \in BatchStarts, d \in BatchStrides }
    IN  sound \cup UNION { SpoiltBatches(BatchItems(n, 0, 1)) : n \in BatchLens }

Requests ==
    { [endpoint |-> e] :
        e \in {"/", "/health", "/model-info", "/debug/features", "/missing"} }
        \cup { [endpoint |-> "/predict", body |-> b] : b \in PredictBodies }
        \cup { [endpoint |-> "/predict-batch", items |-> b] : b \in BatchBodies }

NoRequest == [endpoint |-> "none"]
NoResponse == [endpoint |-> "none", status_code |-> 0]

\* --------------------------------------------- the fitted artifacts' calls
\* scaler.transform(features_df) followed by model.predict(features_scaled)[0]:
\* a finite number, NaN, or an exception of either call
RawValues ==
    LET steps == (RawReach * Unit) \div RawStep
    IN  { 2 * Unit + k * RawStep : k \in (-steps)..steps }

ModelOutcomes ==
    { [kind |-> "value", raw |-> r] : r \in RawValues }
        \cup { [kind |-> k, raw |-> 0] :
                 k \in {"nan", "transform_error", "predict_error"} }

NoOutcome == [kind |-> "unused", raw |-> 0]

\* the outcomes of the one call a prediction makes; none is made in demo mode
Outcomes(m, s) == IF m = None \/ s = None THEN {NoOutcome} ELSE ModelOutcomes

BatchOutcomeList ==
    << [kind |-> "predict_error", raw |-> 0],
       [kind |-> "value", raw |-> (2 * Unit) \div 5],
       [kind |-> "value", raw |-> (3 * Unit) \div 2],
       [kind |-> "value", raw |-> (249 * Unit) \div 100],
       [kind |-> "value", raw |-> 3 * Unit],
       [kind |-> "value", raw |-> (36 * Unit) \div 5] >>

\* the outcomes of a batch's n calls
OutcomeSeqs(m, s, n) ==
    IF m = None \/ s = None THEN { [i \in 1..n |-> NoOutcome] }
    ELSE LET L == Len(BatchOutcomeList)
         IN  { [i \in 1..n |-> BatchOutcomeList[((b + (i - 1) * e) % L) + 1]] :
                 b \in 0..(L - 1), e \in 0..(L - 1) }

\* ---------------------------------------------------------- predictor
\* variant: the elif score == 2 branch left out
get_demand_interpretation_two_way(score) ==
    IF score = 1 THEN
        [level |-> "Low",
         recommendations |-> "Market shows low demand. Focus on awareness and education programs."]
    ELSE
        [level |-> "High",
         recommendations |-> "High demand potential! Prioritize manufacturing and distribution in this region."]

get_demand_interpretation(score) ==
    IF score = 1 THEN
        [level |-> "Low",
         recommendations |-> "Market shows low demand. Focus on awareness and education programs."]
    ELSE IF score = 2 THEN
        [level |-> "Medium",
         recommendations |-> "Moderate demand expected. Consider targeted marketing and partnerships."]
    ELSE
        [level |-> "High",
         recommendations |-> "High demand potential! Prioritize manufacturing and distribution in this region."]

\* variant: the upper clamp min(3, .) left out
demo_score_unclamped(features) ==
    LET total_score == sum_values(features)
    IN  Max(1, 1 + (total_score \div 2))

\* demo mode: min(3, max(1, 1 + (total_score // 2)))
demo_score(features) ==
    LET total_score == sum_values(features)
    IN  Min(3, Max(1, 1 + (total_score \div 2)))

demo_confidence == Hundredths(75)

\* max(1, min(3, round(prediction)))
demand_score_of(prediction) == Max(1, Min(3, round(prediction, Unit)))

\* variant: the distance is taken from round(prediction), not from the clamped score
confidence_of_rounded(prediction, demand_score) ==
    Min(Hundredths(95),
        Max(Hundredths(60), Unit - Abs(prediction - round(prediction, Unit) * Unit)))

\* variant: the upper clamp min(0.95, .) left out
confidence_uncapped(prediction, demand_score) ==
    Max(Hundredths(60), Unit - Abs(prediction - demand_score * Unit))

\* min(0.95, max(0.60, 1 - abs(prediction - demand_score)))
confidence_of(prediction, demand_score) ==
    Min(Hundredths(95),
        Max(Hundredths(60), Unit - Abs(prediction - demand_score * Unit)))

\* predict_smart_glasses_demand(features) under the globals m, s; outcome is what
\* the artifacts' calls do.  raised: the HTTPException(500) of the except clause.
predict_smart_glasses_demand(m, s, features, outcome) ==
    IF m = None \/ s = None THEN
        [raised |-> FALSE, demand_score |-> demo_score(features),
         confidence |-> demo_confidence]
    ELSE IF outcome.kind # "value" THEN
        \* transform or predict raised, or round(nan) did
        [raised |-> TRUE, demand_score |-> 0, confidence |-> 0]
    ELSE
        LET demand_score == demand_score_of(outcome.raw)
        IN  [raised |-> FALSE, demand_score |-> demand_score,
             confidence |-> confidence_of(outcome.raw, demand_score)]

\* one entry of the invocation log
Call(features, outcome, result) ==
    [features |-> features, prediction |-> outcome, result |-> result]

\* ------------------------------------------------------------- start-up
Init ==
    /\ pc = "import"
    /\ model = None
    /\ scaler = None
    /\ actual_feature_names = NoNames
    /\ req = NoRequest
    /\ resp = NoResponse
    /\ calls = <<>>

\* the names the try block settles on once both artifacts are loaded
feature_names_of(m, s) ==
    IF m.has_names THEN m.feature_names_in_
    ELSE IF s.has_names THEN s.feature_names_in_
    ELSE HardcodedNames

\* lifespan, up to its yield: the two joblib.load calls in order; the first one
\* that raises leaves the globals not yet assigned as they were
lifespan ==
    /\ pc = "import"
    /\ \E lm \in LoadResults(ModelArtifacts), ls \in LoadResults(ScalerArtifacts) :
         IF ~lm.ok THEN
            /\ UNCHANGED <<model, scaler>>
            /\ actual_feature_names' = HardcodedNames
         ELSE IF ~ls.ok THEN
            /\ model' = lm.value
            /\ UNCHANGED scaler
            /\ actual_feature_names' = HardcodedNames
         ELSE
            /\ model' = lm.value
            /\ scaler' = ls.value
            /\ actual_feature_names' = feature_names_of(lm.value, ls.value)
    /\ pc' = "serving"
    /\ UNCHANGED <<req, resp, calls>>

\* lifespan after its yield
shutdown ==
    /\ pc = "serving"
    /\ req = NoRequest
    /\ pc' = "shutdown"
    /\ UNCHANGED <<model, scaler, actual_feature_names, req, resp, calls>>

\* ------------------------------------------------------------ requests
\* the application takes a request off the wire
Receive(r) ==
    /\ pc = "serving"
    /\ req = NoRequest
    /\ req' = r
    /\ resp' = NoResponse
    /\ calls' = <<>>
    /\ UNCHANGED <<pc, model, scaler, actual_feature_names>>

\* the response is sent
Send ==
    /\ resp # NoResponse
    /\ req' = NoRequest
    /\ resp' = NoResponse
    /\ calls' = <<>>
    /\ UNCHANGED <<pc, model, scaler, actual_feature_names>>

Handling(endpoint) ==
    /\ pc = "serving"
    /\ req.endpoint = endpoint
    /\ resp = NoResponse

\* the framework's answer to a body the request schema refuses
ValidationError(endpoint) == [endpoint |-> endpoint, status_code |-> 422]

\* -------------------------------------------------------------- GET /
root_status(m) == IF m # None THEN "Model loaded" ELSE "Demo mode"

root ==
    /\ Handling("/")
    /\ resp' = [endpoint |-> "/", status_code |-> 200, status |-> root_status(model)]
    /\ UNCHANGED <<pc, model, scaler, actual_feature_names, req, calls>>

\* -------------------------------------------------------- GET /health
test_features == [f \in Fields |-> 1]

\* variant: no except clause, the self-test's exception leaves the handler
health_body_uncaught(m, s, test_prediction) ==
    IF ~test_prediction.raised THEN
        [endpoint |-> "/health", status_code |-> 200,
         status |-> "healthy",
         model_loaded |-> (m # None /\ s # None),
         test_prediction_successful |-> TRUE,
         demo_mode |-> (m = None \/ s = None),
         test_result |-> [demand_score |-> test_prediction.demand_score,
                          confidence |-> round3(test_prediction.confidence)]]
    ELSE
        [endpoint |-> "/health", status_code |-> 500]

\* the body health_check returns given its self-test's result
health_body(m, s, test_prediction) ==
    IF ~test_prediction.raised THEN
        [endpoint |-> "/health", status_code |-> 200,
         status |-> "healthy",
         model_loaded |-> (m # None /\ s # None),
         test_prediction_successful |-> TRUE,
         demo_mode |-> (m = None \/ s = None),
         test_result |-> [demand_score |-> test_prediction.demand_score,
                          confidence |-> round3(test_prediction.confidence)]]
    ELSE
        [endpoint |-> "/health", status_code |-> 200,
         status |-> "unhealthy",
         model_loaded |-> FALSE]

\* variant: a failed self-test drops the artifacts to fall back to demo mode
health_check_resetting ==
    /\ Handling("/health")
    /\ \E outcome \in Outcomes(model, scaler) :
         LET test_prediction ==
                 predict_smart_glasses_demand(model, scaler, test_features, outcome)
         IN  /\ calls' = <<Call(test_features, outcome, test_prediction)>>
             /\ resp' = health_body(model, scaler, test_prediction)
             /\ IF test_prediction.raised
                   THEN model' = None /\ scaler' = None
                   ELSE UNCHANGED <<model, scaler>>
    /\ UNCHANGED <<pc, actual_feature_names, req>>

health_check ==
    /\ Handling("/health")
    /\ \E outcome \in Outcomes(model, scaler) :
         LET test_prediction ==
                 predict_smart_glasses_demand(model, scaler, test_features, outcome)
         IN  /\ calls' = <<Call(test_features, outcome, test_prediction)>>
             /\ resp' = health_body(model, scaler, test_prediction)
    /\ UNCHANGED <<pc, model, scaler, actual_feature_names, req>>

\* ------------------------------------------------------- POST /predict
\* the dict the handlers build from the validated request's six attributes
features_of(request) == [f \in Fields |-> request[f]]

\* round((sum(features.values()) / 6) * 100, 1), in tenths of a percent
coverage_percentage(features) == round(sum_values(features) * 100 * 10, 6)

\* what predict_demand answers given the predictor's result
predict_response(features, result) ==
    IF result.raised THEN
        \* except HTTPException: raise
        [endpoint |-> "/predict", status_code |-> 500]
    ELSE
        LET interpretation == get_demand_interpretation(result.demand_score)
        IN  [endpoint |-> "/predict", status_code |-> 200,
             demand_score |-> result.demand_score,
             demand_level |-> interpretation.level,
             confidence |-> round3(result.confidence),
             input_summary |->
                 [total_training_areas |-> sum_values(features),
                  vision_training_available |-> (features["vision"] # 0),
                  mobility_training_available |-> (features["mobility"] # 0),
                  training_coverage_percentage |-> coverage_percentage(features)],
             recommendations |-> interpretation.recommendations]

predict_demand ==
    /\ Handling("/predict")
    /\ IF ~PredictionRequest(req.body) THEN
          /\ resp' = ValidationError("/predict")
          /\ calls' = <<>>
       ELSE
          \E outcome \in Outcomes(model, scaler) :
             LET features == features_of(req.body)
                 result == predict_smart_glasses_demand(model, scaler, features, outcome)
             IN  /\ calls' = <<Call(features, outcome, result)>>
                 /\ resp' = predict_response(features, result)
    /\ UNCHANGED <<pc, model, scaler, actual_feature_names, req>>

\* ------------------------------------------------- POST /predict-batch

\* variant: len(requests) >= 50
batch_too_large_at_limit(requests) == Len(requests) >= BatchLimit

\* len(requests) > 50
batch_too_large(requests) == Len(requests) > BatchLimit

\* the entry the loop body appends for item number i (from 0)
batch_entry(i, result) ==
    IF result.raised THEN
        \* except Exception as e  (HTTPException is an Exception)
        [index |-> i, error |-> "Prediction failed"]
    ELSE
        [index |-> i,
         demand_score |-> result.demand_score,
         demand_level |-> get_demand_interpretation(result.demand_score).level,
         confidence |-> round3(result.confidence)]

\* what the loop body does for the item at position n (index n - 1)
batch_step(m, s, requests, outcomes, n) ==
    LET features == features_of(requests[n])
        result == predict_smart_glasses_demand(m, s, features, outcomes[n])
    IN  [entry |-> batch_entry(n - 1, result),
         call |-> Call(features, outcomes[n], result)]

\* variant: the try/except around the loop instead of inside it, so that the
\* first failing item ends the loop
batch_loop_aborting(m, s, requests, outcomes) ==
    LET steps == [n \in 1..Len(requests) |-> batch_step(m, s, requests, outcomes, n)]
        failing == { n \in 1..Len(requests) : steps[n].call.result.raised }
        last == IF failing = {} THEN Len(requests)
                ELSE CHOOSE n \in failing : \A k \in failing : n <= k
    IN  [results |-> [n \in 1..last |-> steps[n].entry],
         calls |-> [n \in 1..last |-> steps[n].call]]

\* the for loop over enumerate(requests): one iteration per item, in order, each
\* appending one entry; an iteration reads nothing an earlier one wrote
batch_loop(m, s, requests, outcomes) ==
    LET steps == [n \in 1..Len(requests) |-> batch_step(m, s, requests, outcomes, n)]
    IN  [results |-> [n \in 1..Len(requests) |-> steps[n].entry],
         calls |-> [n \in 1..Len(requests) |-> steps[n].call]]

predict_batch ==
    /\ Handling("/predict-batch")
    /\ IF ~ListOfPredictionRequest(req.items) THEN
          /\ resp' = ValidationError("/predict-batch")
          /\ calls' = <<>>
       ELSE IF batch_too_large(req.items) THEN
          /\ resp' = [endpoint |-> "/predict-batch", status_code |-> 400]
          /\ calls' = <<>>
       ELSE
          \E outcomes \in OutcomeSeqs(model, scaler, Len(req.items)) :
             LET done == batch_loop(model, scaler, req.items, outcomes)
             IN  /\ resp' = [endpoint |-> "/predict-batch", status_code |-> 200,
                             batch_results |-> done.results]
                 /\ calls' = done.calls
    /\ UNCHANGED <<pc, model, scaler, actual_feature_names, req>>

\* ---------------------------------------------------- GET /model-info
model_type_of(m) ==
    IF m = None THEN "Demo Mode"
    ELSE IF m.type = "RandomForestRegressor" THEN "Random Forest Regressor"
    ELSE IF m.type = "LinearRegression" THEN "Linear Regression"
    ELSE m.type

get_model_info ==
    /\ Handling("/model-info")
    /\ resp' = [endpoint |-> "/model-info", status_code |-> 200,
                model_type |-> model_type_of(model),
                features |-> actual_feature_names,
                feature_count |-> Len(actual_feature_names)]
    /\ UNCHANGED <<pc, model, scaler, actual_feature_names, req, calls>>

\* ------------------------------------------------ GET /debug/features
debug_features ==
    /\ Handling("/debug/features")
    /\ resp' = [endpoint |-> "/debug/features", status_code |-> 200,
                model_loaded |-> (model # None),
                scaler_loaded |-> (scaler # None),
                expected_features |-> actual_feature_names,
                feature_count |-> Len(actual_feature_names),
                model_type |-> IF model # None THEN model.type ELSE "No model",
                scaler_type |-> IF scaler # None THEN scaler.type ELSE "No scaler"]
    /\ UNCHANGED <<pc, model, scaler, actual_feature_names, req, calls>>

\* ------------------------------------------------------ any other route
not_found_handler ==
    /\ Handling("/missing")
    /\ resp' = [endpoint |-> "/missing", status_code |-> 404]
    /\ UNCHANGED <<pc, model, scaler, actual_feature_names, req, calls>>

\* ------------------------------------------------------- specification
Next ==
    \/ lifespan
    \/ \E r \in Requests : Receive(r)
    \/ root
    \/ health_check
    \/ predict_demand
    \/ predict_batch
    \/ get_model_info
    \/ debug_features
    \/ not_found_handler
    \/ Send
    \/ shutdown

Spec == Init /\ [][Next]_vars

\* ------------------------------------------------------------ properties
DemoMode == model = None \/ scaler = None

\* the number of flags set in a questionnaire
FlagsSet(features) == Cardinality({f \in DOMAIN features : features[f] = 1})

Clamp(x, lo, hi) == IF x < lo THEN lo ELSE IF x > hi THEN hi ELSE x

\* r is an integer nearest to raw
Nearest(r, raw) == 2 * Abs(raw - r * Unit) <= Unit

NearInts(raw) == { r \in ((raw \div Unit) - 1)..((raw \div Unit) + 1) : Nearest(r, raw) }

LevelTable == <<"Low", "Medium", "High">>

RecommendationTable ==
    << "Market shows low demand. Focus on awareness and education programs.",
       "Moderate demand expected. Consider targeted marketing and partnerships.",
       "High demand potential! Prioritize manufacturing and distribution in this region." >>

\* C1: in fallback mode (model or scaler not loaded) every invocation of the
\* predictor returns demand_score by the table sum 0..6 -> 1,1,2,2,3,3,3, which is
\* clamp(1 + floor(sum / 2), 1, 3), and confidence exactly 0.75.
C1_FallbackTable ==
    DemoMode =>
        \A i \in 1..Len(calls) :
            LET n == FlagsSet(calls[i].features)
                result == calls[i].result
            IN  /\ ~result.raised
                /\ result.demand_score = <<1, 1, 2, 2, 3, 3, 3>>[n + 1]
                /\ result.demand_score = Clamp(1 + (n \div 2), 1, 3)
                /\ 4 * result.confidence = 3 * Unit

\* C1 witness: the model loaded, the scaler did not, and a questionnaire with five
\* flags set was scored 3 with confidence 0.75.
C1_Witness ==
    /\ model # None
    /\ scaler = None
    /\ req.endpoint = "/predict"
    /\ Len(calls) = 1
    /\ FlagsSet(calls[1].features) = 5
    /\ calls[1].result.demand_score = 3
    /\ resp.status_code = 200
    /\ resp.confidence = 750

\* C2 as stated: in model mode every returned result has demand_score = the raw
\* output rounded to a nearest integer and clamped to [1,3], and confidence =
\* clamp(1 - |raw - rounded|, 0.60, 0.95) with the rounding before the clamp.
C2_ConfidenceFromRounded ==
    ~DemoMode =>
        \A i \in 1..Len(calls) :
            LET raw == calls[i].prediction.raw
                result == calls[i].result
            IN  ~result.raised =>
                    \E r \in NearInts(raw) :
                        /\ result.demand_score = Clamp(r, 1, 3)
                        /\ result.confidence =
                               Clamp(Unit - Abs(raw - r * Unit), (60 * Unit) \div 100,
                                     (95 * Unit) \div 100)

\* C2 amended: in model mode every returned result has demand_score = the raw
\* output rounded to a nearest integer and clamped to [1,3], and confidence =
\* clamp(1 - |raw - demand_score|, 0.60, 0.95), the distance to the clamped score.
C2_ConfidenceFromScore ==
    ~DemoMode =>
        \A i \in 1..Len(calls) :
            LET raw == calls[i].prediction.raw
                result == calls[i].result
            IN  ~result.raised =>
                    /\ \E r \in NearInts(raw) : result.demand_score = Clamp(r, 1, 3)
                    /\ result.confidence =
                           Clamp(Unit - Abs(raw - result.demand_score * Unit),
                                 (60 * Unit) \div 100, (95 * Unit) \div 100)

\* C2 witness: a raw output of exactly 5.0 was scored 3 with confidence 0.60.
C2_Witness ==
    /\ ~DemoMode
    /\ Len(calls) = 1
    /\ calls[1].prediction.kind = "value"
    /\ calls[1].prediction.raw = 5 * Unit
    /\ calls[1].result.demand_score = 3
    /\ 100 * calls[1].result.confidence = 60 * Unit

\* the score and the confidence (in thousandths) a response carries are in range
InRange(demand_score, confidence) ==
    /\ demand_score \in {1, 2, 3}
    /\ IF DemoMode THEN confidence = 750 ELSE confidence >= 600 /\ confidence <= 950

\* C3: every result the predictor returns has demand_score in {1,2,3} and a
\* confidence in [0.60, 0.95] when model and scaler are loaded, exactly 0.75
\* otherwise; so have the values in /predict, /predict-batch and /health responses
\* after round(confidence, 3).
C3_ResultInRange ==
    /\ \A i \in 1..Len(calls) :
          LET result == calls[i].result
          IN  ~result.raised =>
                  /\ result.demand_score \in {1, 2, 3}
                  /\ IF DemoMode
                        THEN 100 * result.confidence = 75 * Unit
                        ELSE /\ 100 * result.confidence >= 60 * Unit
                             /\ 100 * result.confidence <= 95 * Unit
    /\ (resp.endpoint = "/predict" /\ resp.status_code = 200) =>
            InRange(resp.demand_score, resp.confidence)
    /\ (resp.endpoint = "/predict-batch" /\ resp.status_code = 200) =>
            \A i \in 1..Len(resp.batch_results) :
                LET entry == resp.batch_results[i]
                IN  "error" \notin DOMAIN entry =>
                        InRange(entry.demand_score, entry.confidence)
    /\ (resp.endpoint = "/health" /\ resp.status_code = 200
            /\ resp.status = "healthy") =>
            InRange(resp.test_result.demand_score, resp.test_result.confidence)

\* C3 witness: in model mode a confidence of 0.9375 went into a /predict response
\* as 0.938.
C3_Witness ==
    /\ ~DemoMode
    /\ resp.endpoint = "/predict"
    /\ resp.status_code = 200
    /\ 10000 * calls[1].result.confidence = 9375 * Unit
    /\ resp.confidence = 938

\* the keys of the two kinds of batch entry
ResultKeys == {"index", "demand_score", "demand_level", "confidence"}
ErrorKeys == {"index", "error"}

BatchAccepted == resp.endpoint = "/predict-batch" /\ resp.status_code = 200

\* C4: an accepted batch of n items is answered with exactly n entries, entry i
\* carrying index i, each entry a result or an error; every item is predicted, and
\* only the items whose prediction failed get an error entry.
C4_BatchPerIndex ==
    BatchAccepted =>
        LET n == Len(req.items) IN
        /\ n <= 50
        /\ Len(resp.batch_results) = n
        /\ Len(calls) = n
        /\ \A i \in 1..n :
              LET entry == resp.batch_results[i]
                  call == calls[i]
              IN  /\ entry.index = i - 1
                  /\ call.features = req.items[i]
                  /\ IF ~DemoMode /\ call.prediction.kind # "value"
                        THEN DOMAIN entry = ErrorKeys
                        ELSE /\ DOMAIN entry = ResultKeys
                             /\ entry.demand_score = call.result.demand_score

\* C4 witness: in a batch of three the second item's prediction failed, and the
\* first and the third were predicted and reported.
C4_Witness ==
    /\ BatchAccepted
    /\ Len(req.items) = 3
    /\ DOMAIN resp.batch_results[1] = ResultKeys
    /\ DOMAIN resp.batch_results[2] = ErrorKeys
    /\ DOMAIN resp.batch_results[3] = ResultKeys
    /\ resp.batch_results[3].index = 2

\* C5: a batch of more than 50 items is refused with a 4xx status (400 when its
\* items are valid), the predictor is invoked for none of its items and no
\* batch_results are returned; a batch of exactly 50 valid items is accepted and
\* answered with 50 entries in input order.
C5_BatchLimit ==
    (req.endpoint = "/predict-batch" /\ resp # NoResponse) =>
        LET n == Len(req.items)
            valid == \A i \in 1..n :
                        /\ DOMAIN req.items[i] = Fields
                        /\ \A f \in Fields : req.items[i][f] \in {0, 1}
        IN  /\ n > 50 =>
                /\ resp.status_code \in 400..499
                /\ valid => resp.status_code = 400
                /\ calls = <<>>
                /\ "batch_results" \notin DOMAIN resp
            /\ (n = 50 /\ valid) =>
                /\ resp.status_code = 200
                /\ Len(resp.batch_results) = 50
                /\ \A i \in 1..50 :
                      /\ resp.batch_results[i].index = i - 1
                      /\ calls[i].features = req.items[i]

\* C5 witness: a batch of 51 valid items was refused with status 400.
C5_Witness ==
    /\ req.endpoint = "/predict-batch"
    /\ Len(req.items) = 51
    /\ resp.status_code = 400
    /\ calls = <<>>

\* a body with a field missing or a value outside {0,1}
Malformed(body) == \E f \in Fields : f \notin DOMAIN body \/ body[f] \notin {0, 1}

\* C6: a /predict request with a field missing or outside {0,1} ends in a 422 and
\* the predictor is not invoked for it; the predictor is only ever invoked with a
\* map of exactly the six flags, each 0 or 1.
C6_ValidationFirst ==
    /\ (req.endpoint = "/predict" /\ resp # NoResponse /\ Malformed(req.body)) =>
            /\ resp.status_code = 422
            /\ calls = <<>>
    /\ \A i \in 1..Len(calls) :
            /\ DOMAIN calls[i].features = Fields
            /\ \A f \in Fields : calls[i].features[f] \in {0, 1}

\* C6 witness: a /predict request with cognition = 2 was answered 422 without a
\* prediction.
C6_Witness ==
    /\ req.endpoint = "/predict"
    /\ "cognition" \in DOMAIN req.body
    /\ req.body["cognition"] = 2
    /\ resp.status_code = 422
    /\ calls = <<>>

\* C7: GET /health always returns a normal body, also when its self-test
\* prediction fails; in demo mode it reports status healthy, demo_mode true and
\* the self-test result demand_score 3, confidence 0.75.
C7_HealthNeverRaises ==
    (req.endpoint = "/health" /\ resp # NoResponse) =>
        /\ resp.status_code = 200
        /\ resp.status \in {"healthy", "unhealthy"}
        /\ (Len(calls) = 1 /\ calls[1].result.raised) => resp.status = "unhealthy"
        /\ DemoMode =>
              /\ resp.status = "healthy"
              /\ resp.demo_mode = TRUE
              /\ resp.test_result = [demand_score |-> 3, confidence |-> 750]

\* C7 witness: the self-test prediction failed and /health answered with the
\* unhealthy body.
C7_Witness ==
    /\ req.endpoint = "/health"
    /\ Len(calls) = 1
    /\ calls[1].result.raised
    /\ resp.status_code = 200
    /\ resp.status = "unhealthy"

\* C8: once start-up is over no step (no handler of any endpoint, whether its
\* request succeeds or fails) changes model, scaler or actual_feature_names, and
\* start-up does not run again.
C8_GlobalsWriteOnce ==
    [][pc # "import" =>
          /\ model' = model
          /\ scaler' = scaler
          /\ actual_feature_names' = actual_feature_names
          /\ pc' # "import"]_vars

\* C8 witness: with both artifacts loaded a /predict request failed with status 500.
C8_Witness ==
    /\ pc = "serving"
    /\ model # None
    /\ scaler # None
    /\ actual_feature_names # NoNames
    /\ req.endpoint = "/predict"
    /\ resp.status_code = 500

\* C9: in every successful /predict response and /predict-batch entry the
\* demand_level (and the recommendations of /predict) are those of the table
\* 1 -> Low, 2 -> Medium, 3 -> High for the demand_score it carries.
C9_LevelFromScore ==
    /\ (resp.endpoint = "/predict" /\ resp.status_code = 200) =>
            /\ resp.demand_score \in 1..3
            /\ resp.demand_level = LevelTable[resp.demand_score]
            /\ resp.recommendations = RecommendationTable[resp.demand_score]
    /\ BatchAccepted =>
            \A i \in 1..Len(resp.batch_results) :
                LET entry == resp.batch_results[i]
                IN  "error" \notin DOMAIN entry =>
                        /\ entry.demand_score \in 1..3
                        /\ entry.demand_level = LevelTable[entry.demand_score]

\* C9 witness: a model-mode batch entry with demand_score 2 carries level Medium.
C9_Witness ==
    /\ ~DemoMode
    /\ BatchAccepted
    /\ Len(resp.batch_results) >= 1
    /\ "error" \notin DOMAIN resp.batch_results[1]
    /\ resp.batch_results[1].demand_score = 2
    /\ resp.batch_results[1].demand_level = "Medium"

\* C10: the status GET / reports is "Model loaded" exactly when the predictor
\* operates in model mode (model and scaler both loaded), "Demo mode" otherwise,
\* and so agrees with the demo_mode flag of GET /health.
C10_RootReportsMode ==
    /\ (req.endpoint = "/" /\ resp # NoResponse) =>
            /\ resp.status \in {"Model loaded", "Demo mode"}
            /\ (resp.status = "Model loaded") <=> ~DemoMode
    /\ (req.endpoint = "/health" /\ resp # NoResponse /\ resp.status = "healthy") =>
            (resp.demo_mode <=> DemoMode)

====
